---- MODULE Spec2Model ----
(***************************************************************************)
(* Model of the HiNote annotation store (CommentStore, src/src/types.ts).  *)
(*                                                                         *)
(* Strings are sequences of one-character strings, so that concatenation   *)
(* (path + '#^' + token) and the block-marker pattern are computed as the  *)
(* code computes them.  JavaScript plain objects and Maps keep their keys  *)
(* in insertion order; both are modelled as sequences of [k, v] entries    *)
(* with pairwise distinct keys.                                            *)
(***************************************************************************)
EXTENDS Integers, Sequences, FiniteSets, TLC

(***************************************************************************)
(* Bounds of the model.                                                    *)
(***************************************************************************)
MaxClock == 1
MaxHighlights == 1
MaxComments == 1
MaxFileComments == 1
MaxFailures == 1
MaxLineLen == 6
MaxListed == 2
MaxThread == 3
MaxSegments == 3
MaxHistory == 4
MaxDragged == 2
\* the cache capacity (maxCacheSize, 100 by default), scaled down
maxCacheSize == 2

(***************************************************************************)
(* Input alphabets.                                                        *)
(***************************************************************************)
PathA == <<"a">>
PathB == <<"b">>
Paths == {PathA, PathB}
NoFile == <<>>
HighlightIds == {<<"h", "1">>, <<"h", "2">>}
FileCommentSuffixes == {<<"r">>, <<"s">>}
Contents == {<<"c">>, <<"d">>}
Texts == {<<"t">>}
Positions == {0, 3}
GivenParagraphId == <<"a", "#", "^", "p">>
GeneratedBlockIds == {<<>>, <<"x">>}

(***************************************************************************)
(* Ordered key/value containers (plain objects, Map).                      *)
(***************************************************************************)
ObjHas(o, k) == \E i \in 1..Len(o) : o[i].k = k

ObjIdx(o, k) == CHOOSE i \in 1..Len(o) : o[i].k = k

ObjGet(o, k) == o[ObjIdx(o, k)].v

ObjSet(o, k, v) ==
    IF ObjHas(o, k) THEN [o EXCEPT ![ObjIdx(o, k)].v = v]
    ELSE Append(o, [k |-> k, v |-> v])

\* a delete that empties the container
ObjDelAll(o, k) == <<>>

\* a delete that removes nothing
ObjDelNothing(o, k) == o

ObjDel(o, k) == SelectSeq(o, LAMBDA e : e.k # k)

ObjKeys(o) == [i \in 1..Len(o) |-> o[i].k]

ObjValues(o) == [i \in 1..Len(o) |-> o[i].v]

ObjKeySet(o) == {o[i].k : i \in 1..Len(o)}

Range(s) == {s[i] : i \in 1..Len(s)}

(***************************************************************************)
(* Number formatting: the decimal digits of a timestamp, as template       *)
(* literals and string concatenation produce them.                         *)
(***************************************************************************)
Digit(n) ==
    CASE n = 0 -> "0" [] n = 1 -> "1" [] n = 2 -> "2" [] n = 3 -> "3"
      [] n = 4 -> "4" [] n = 5 -> "5" [] n = 6 -> "6" [] n = 7 -> "7"
      [] n = 8 -> "8" [] n = 9 -> "9"

RECURSIVE NumToStr(_)
NumToStr(n) == IF n < 10 THEN <<Digit(n)>> ELSE NumToStr(n \div 10) \o <<Digit(n % 10)>>

(***************************************************************************)
(* The comparators handed to Array.prototype.sort.                         *)
(***************************************************************************)
compareVirtualFirst(a, b) ==
    IF a.isVirtual /\ ~b.isVirtual THEN -1
    ELSE IF ~a.isVirtual /\ b.isVirtual THEN 1
    ELSE a.position - b.position

\* the comparator with its operands exchanged
comparePositionDescending(a, b) == b.position - a.position

comparePosition(a, b) == a.position - b.position

Compare(mode, a, b) ==
    IF mode = "virtualFirst" THEN compareVirtualFirst(a, b) ELSE comparePosition(a, b)

(***************************************************************************)
(* Array.prototype.sort with a comparator: stable.                         *)
(***************************************************************************)
RECURSIVE InsertSorted(_, _, _)
InsertSorted(s, x, mode) ==
    IF s = <<>> THEN <<x>>
    ELSE IF Compare(mode, x, s[Len(s)]) < 0
         THEN Append(InsertSorted(SubSeq(s, 1, Len(s) - 1), x, mode), s[Len(s)])
         ELSE Append(s, x)

RECURSIVE SortBy(_, _)
SortBy(s, mode) ==
    IF s = <<>> THEN <<>>
    ELSE InsertSorted(SortBy(SubSeq(s, 1, Len(s) - 1), mode), s[Len(s)], mode)


VARIABLES
    data,              \* this.data: path -> (highlight id -> HighlightComment)
    fileCommentsData,  \* this.fileCommentsData: path -> FileComment[]
    fileComments,      \* this.fileComments: Map path -> FileComment[]
    shared,            \* paths whose array is the same object in both of the above
    commentCache,      \* this.commentCache: Map paragraphId -> HighlightComment[]
    storage,           \* what plugin.loadData() would return
    now,               \* the reading of Date.now()
    activeView,        \* workspace: the active file and whether it has a markdown editor
    lines,             \* editor buffers: path -> lines of text
    failures,          \* how many writes the storage collaborator has rejected
    ret,               \* the last store call: operation, arguments, outcome
    typed,             \* the pieces of text typed into the buffer given to HighlightService
    answer,            \* the last HighlightService call: operation, content, value
    lastIndex,         \* HighlightService.HIGHLIGHT_REGEX.lastIndex: the shared pattern's scan position
    isProcessing,      \* ChatView.isProcessing
    chatHistory,       \* ChatView.chatHistory: the messages of the conversation
    draggedContents,   \* ChatView.draggedContents: the highlights dropped on the chat
    pending,           \* the calls of chatService.sendMessage that have not settled
    event              \* the last event handled by the ChatView

vars == <<data, fileCommentsData, fileComments, shared, commentCache, storage,
          now, activeView, lines, failures, ret, typed, answer, lastIndex,
          isProcessing, chatHistory, draggedContents, pending, event>>

chatState == <<isProcessing, chatHistory, draggedContents, pending, event>>

(***************************************************************************)
(* Records.                                                                *)
(*   HighlightComment: [id, text, position, paragraphId, comments,         *)
(*                      createdAt, updatedAt, isVirtual]                    *)
(*   CommentItem:      [id, content, createdAt, updatedAt]                  *)
(*   FileComment:      [id, content, createdAt, updatedAt, filePath]        *)
(* A paragraphId of <<>> is the falsy one (undefined or '').               *)
(***************************************************************************)
NoParagraphId == <<>>

HighlightInputs(ids, t) ==
    [id : ids, text : Texts, position : Positions,
     paragraphId : {NoParagraphId, GivenParagraphId},
     comments : {<<>>}, createdAt : {t}, updatedAt : {t}, isVirtual : BOOLEAN]

(***************************************************************************)
(* Queries.                                                                *)
(***************************************************************************)
\* this.data[file.path] || {}
HighlightsOf(d, path) == IF ObjHas(d, path) THEN ObjGet(d, path) ELSE <<>>

getFileCommentsIn(d, path) == SortBy(ObjValues(HighlightsOf(d, path)), "virtualFirst")

getFileComments(path) == getFileCommentsIn(data, path)

getFileOnlyCommentsIn(fc, path) == IF ObjHas(fc, path) THEN ObjGet(fc, path) ELSE <<>>

getFileOnlyComments(path) == getFileOnlyCommentsIn(fileComments, path)

getCommentsByParagraphId(path, paragraphId) ==
    SortBy(SelectSeq(ObjValues(HighlightsOf(data, path)),
                     LAMBDA h : h.paragraphId = paragraphId), "position")

hasParagraphComments(path, paragraphId) ==
    Len(getCommentsByParagraphId(path, paragraphId)) > 0

(***************************************************************************)
(* The editor collaborator and block identifiers.                          *)
(***************************************************************************)
IdChars ==
    {"a", "b", "c", "d", "e", "f", "g", "h", "i", "j", "k", "l", "m", "n", "o",
     "p", "q", "r", "s", "t", "u", "v", "w", "x", "y", "z", "0", "1", "2", "3",
     "4", "5", "6", "7", "8", "9", "-"}

\* lineText.match(/\^([a-zA-Z0-9-]+)$/): the start of the captured group, or 0
BlockIdMatchStart(lineText) ==
    LET starts == {i \in 2..Len(lineText) :
                      /\ lineText[i - 1] = "^"
                      /\ \A j \in i..Len(lineText) : lineText[j] \in IdChars}
    IN IF starts = {} THEN 0 ELSE CHOOSE i \in starts : \A j \in starts : i <= j

\* editor.offsetToPos(offset).line, lines being joined by one newline
RECURSIVE offsetToLine(_, _)
offsetToLine(ls, offset) ==
    IF Len(ls) <= 1 \/ offset <= Len(ls[1]) THEN 0
    ELSE 1 + offsetToLine(Tail(ls), offset - Len(ls[1]) - 1)

\* getBlockId: the identifier returned and the line text afterwards
getBlockId(lineText, newBlockId) ==
    LET m == BlockIdMatchStart(lineText)
    IN IF m # 0
       THEN [id |-> SubSeq(lineText, m, Len(lineText)), line |-> lineText]
       ELSE [id |-> newBlockId, line |-> lineText \o <<" ", "^">> \o newBlockId]

(***************************************************************************)
(* Durable storage.  The blob is what JSON serialisation keeps of the      *)
(* in-memory objects: entries in key order, records field by field.        *)
(***************************************************************************)
NoBlob == [present |-> FALSE, comments |-> <<>>, fileComments |-> <<>>]

toJSONComment(c) ==
    [id |-> c.id, content |-> c.content, createdAt |-> c.createdAt, updatedAt |-> c.updatedAt]

toJSONHighlight(h) ==
    [id |-> h.id, text |-> h.text, position |-> h.position,
     paragraphId |-> h.paragraphId,
     comments |-> [i \in 1..Len(h.comments) |-> toJSONComment(h.comments[i])],
     createdAt |-> h.createdAt, updatedAt |-> h.updatedAt, isVirtual |-> h.isVirtual]

toJSONFileComment(c) ==
    [id |-> c.id, content |-> c.content, createdAt |-> c.createdAt,
     updatedAt |-> c.updatedAt, filePath |-> c.filePath]

toJSONHighlights(o) ==
    [i \in 1..Len(o) |-> [k |-> o[i].k, v |-> toJSONHighlight(o[i].v)]]

toJSONData(d) == [i \in 1..Len(d) |-> [k |-> d[i].k, v |-> toJSONHighlights(d[i].v)]]

toJSONFileComments(fc) ==
    [i \in 1..Len(fc) |->
        [k |-> fc[i].k, v |-> [j \in 1..Len(fc[i].v) |-> toJSONFileComment(fc[i].v[j])]]]

\* saveComments writing the loaded object instead of the Map
saveCommentsLoadedObject(d, fcd, fc) ==
    [present |-> TRUE, comments |-> toJSONData(d), fileComments |-> toJSONFileComments(fcd)]

\* the argument of plugin.saveData in saveComments
saveComments(d, fcd, fc) ==
    [present |-> TRUE, comments |-> toJSONData(d), fileComments |-> toJSONFileComments(fc)]


(***************************************************************************)
(* Date.now() read n times in one call: the readings never decrease.       *)
(***************************************************************************)
ClockReads(n) ==
    {r \in [1..n -> now..MaxClock] :
        /\ r[1] = now
        /\ \A i \in 1..(n - 1) : r[i] <= r[i + 1]}

(***************************************************************************)
(* The outcome of a call: `await this.saveComments()` is not wrapped in a  *)
(* try/catch anywhere, so a rejected write rejects the call.               *)
(***************************************************************************)
\* a call that catches the rejected write and returns normally
awaitSaveSwallowed(saveCalled, ok) == "ok"

awaitSave(saveCalled, ok) == IF saveCalled /\ ~ok THEN "error" ELSE "ok"

Returned(op, path, arg, found, saveCalled, ok) ==
    [op |-> op, path |-> path, arg |-> arg, found |-> found,
     saveCalled |-> saveCalled, saveOk |-> saveCalled /\ ok,
     status |-> awaitSave(saveCalled, ok)]

\* 1 when plugin.saveData was called and rejected
rejected(saveCalled, ok) == IF saveCalled /\ ~ok THEN 1 ELSE 0

\* the array of a path is one object in fileCommentsData and in the Map
mirror(fcd, sh, path, arr) ==
    IF path \in sh /\ ObjHas(fcd, path) THEN ObjSet(fcd, path, arr) ELSE fcd

NoEvent == [op |-> "none", value |-> <<>>, accepted |-> FALSE]

NoResult == [op |-> "none", content |-> <<>>, value |-> <<>>]

InitLines == [p \in Paths |-> << <<"t">>, <<"u", " ", "^", "k">> >>]

Init ==
    /\ data = <<>>
    /\ fileCommentsData = <<>>
    /\ fileComments = <<>>
    /\ shared = {}
    /\ commentCache = <<>>
    /\ storage = NoBlob
    /\ now = 0
    /\ activeView = [file |-> NoFile, editor |-> FALSE]
    /\ lines = InitLines
    /\ failures = 0
    /\ ret = Returned("new", NoFile, <<>>, FALSE, FALSE, TRUE)
    /\ typed = <<>>
    /\ answer = NoResult
    /\ lastIndex = 0
    /\ isProcessing = FALSE
    /\ chatHistory = <<>>
    /\ draggedContents = <<>>
    /\ pending = <<>>
    /\ event = NoEvent

(***************************************************************************)
(* addComment(file, highlight)                                             *)
(***************************************************************************)
RECURSIVE CountHighlights(_)
CountHighlights(d) == IF d = <<>> THEN 0 ELSE Len(Head(d).v) + CountHighlights(Tail(d))

RECURSIVE CountFileComments(_)
CountFileComments(fc) == IF fc = <<>> THEN 0 ELSE Len(Head(fc).v) + CountFileComments(Tail(fc))

\* the paragraphId given to a non-virtual highlight that has none, and the
\* editor line afterwards
deriveParagraphId(file, highlight, newBlockId) ==
    IF activeView.editor /\ activeView.file # NoFile
    THEN LET ls == lines[activeView.file]
             line == offsetToLine(ls, highlight.position)
             b == getBlockId(ls[line + 1], newBlockId)
         IN [paragraphId |-> activeView.file \o <<"#", "^">> \o b.id,
             edited |-> TRUE, line |-> line, text |-> b.line]
    ELSE [paragraphId |-> file \o <<"#", "^">> \o NumToStr(now),
          edited |-> FALSE, line |-> 0, text |-> <<>>]

\* a derivation that does not look at isVirtual
needsParagraphIdVirtualToo(highlight) == highlight.paragraphId = NoParagraphId

\* past the early return for virtual highlights, `if (!highlight.paragraphId)`
needsParagraphId(highlight) ==
    ~highlight.isVirtual /\ highlight.paragraphId = NoParagraphId

addComment(file, highlight, newBlockId, ok) ==
    LET d1 == IF ~ObjHas(data, file) THEN ObjSet(data, file, <<>>) ELSE data
        derive == needsParagraphId(highlight)
        dp == deriveParagraphId(file, highlight, newBlockId)
        stored == IF derive THEN [highlight EXCEPT !.paragraphId = dp.paragraphId]
                  ELSE highlight
        d2 == ObjSet(d1, file, ObjSet(ObjGet(d1, file), highlight.id, stored))
    IN /\ data' = d2
       /\ lines' = IF derive /\ dp.edited
                   THEN [lines EXCEPT ![activeView.file][dp.line + 1] = dp.text]
                   ELSE lines
       /\ storage' = IF ok THEN saveComments(d2, fileCommentsData, fileComments) ELSE storage
       /\ ret' = Returned("addComment", file, highlight, TRUE, TRUE, ok)
       /\ failures' = failures + rejected(TRUE, ok)
       /\ UNCHANGED <<typed, answer, lastIndex, chatState, fileCommentsData, fileComments, shared, commentCache, now, activeView>>

(***************************************************************************)
(* addFileComment(file, content)                                           *)
(***************************************************************************)
FileCommentId(t, suffix) == <<"f", "c", "-">> \o NumToStr(t) \o <<"-">> \o suffix

addFileComment(file, content, suffix, r, ok) ==
    LET fileComment == [id |-> FileCommentId(r[1], suffix), content |-> content,
                        createdAt |-> r[2], updatedAt |-> r[3], filePath |-> file]
        had == ObjHas(fileComments, file)
        comments == Append(getFileOnlyComments(file), fileComment)
        fc == ObjSet(fileComments, file, comments)
    IN /\ fileComments' = fc
       /\ shared' = IF had THEN shared ELSE shared \ {file}
       /\ fileCommentsData' = IF had THEN mirror(fileCommentsData, shared, file, comments)
                              ELSE fileCommentsData
       /\ now' = r[3]
       /\ storage' = IF ok THEN saveComments(data, fileCommentsData', fc) ELSE storage
       /\ ret' = Returned("addFileComment", file, fileComment, TRUE, TRUE, ok)
       /\ failures' = failures + rejected(TRUE, ok)
       /\ UNCHANGED <<typed, answer, lastIndex, chatState, data, commentCache, activeView, lines>>

(***************************************************************************)
(* updateComment(file, highlightId, commentContent)                        *)
(***************************************************************************)
HasHighlight(d, path, id) == ObjHas(d, path) /\ ObjHas(ObjGet(d, path), id)

CommentId(t) == <<"c", "-">> \o NumToStr(t)

updateComment(file, highlightId, commentContent, r, ok) ==
    IF HasHighlight(data, file, highlightId)
    THEN LET highlight == ObjGet(ObjGet(data, file), highlightId)
             newComment == [id |-> CommentId(r[1]), content |-> commentContent,
                            createdAt |-> r[2], updatedAt |-> r[3]]
             h2 == [highlight EXCEPT !.comments = Append(@, newComment),
                                     !.updatedAt = r[4]]
             d2 == ObjSet(data, file, ObjSet(ObjGet(data, file), highlightId, h2))
         IN /\ data' = d2
            /\ now' = r[4]
            /\ storage' = IF ok THEN saveComments(d2, fileCommentsData, fileComments)
                          ELSE storage
            /\ ret' = Returned("updateComment", file, highlightId, TRUE, TRUE, ok)
            /\ failures' = failures + rejected(TRUE, ok)
            /\ UNCHANGED <<typed, answer, lastIndex, chatState, fileCommentsData, fileComments, shared, commentCache,
                           activeView, lines>>
    ELSE /\ ret' = Returned("updateComment", file, highlightId, FALSE, FALSE, ok)
         /\ UNCHANGED <<typed, answer, lastIndex, chatState, data, fileCommentsData, fileComments, shared, commentCache,
                        storage, now, activeView, lines, failures>>

(***************************************************************************)
(* updateFileComment(file, commentId, content)                             *)
(***************************************************************************)
\* an absent id taken for the last element (what splice(-1, 1) removes)
findIndexLast(comments, commentId) ==
    LET hits == {i \in 1..Len(comments) : comments[i].id = commentId}
    IN IF hits = {} THEN Len(comments) ELSE CHOOSE i \in hits : \A j \in hits : i <= j

\* a search that reports the first element whenever the id is present
findIndexFirst(comments, commentId) ==
    IF \E i \in 1..Len(comments) : comments[i].id = commentId THEN 1 ELSE 0

\* Array.prototype.findIndex(c => c.id === commentId), 1-based; 0 when absent
findIndex(comments, commentId) ==
    LET hits == {i \in 1..Len(comments) : comments[i].id = commentId}
    IN IF hits = {} THEN 0 ELSE CHOOSE i \in hits : \A j \in hits : i <= j

updateFileComment(file, commentId, content, ok) ==
    LET comments == getFileOnlyComments(file)
        index == findIndex(comments, commentId)
    IN IF index # 0
       THEN LET c2 == [comments EXCEPT ![index].content = content,
                                       ![index].updatedAt = now]
                fc == ObjSet(fileComments, file, c2)
            IN /\ fileComments' = fc
               /\ fileCommentsData' = mirror(fileCommentsData, shared, file, c2)
               /\ storage' = IF ok THEN saveComments(data, fileCommentsData', fc)
                             ELSE storage
               /\ ret' = Returned("updateFileComment", file, commentId, TRUE, TRUE, ok)
               /\ failures' = failures + rejected(TRUE, ok)
               /\ UNCHANGED <<typed, answer, lastIndex, chatState, data, shared, commentCache, now, activeView, lines>>
       ELSE /\ ret' = Returned("updateFileComment", file, commentId, FALSE, FALSE, ok)
            /\ UNCHANGED <<typed, answer, lastIndex, chatState, data, fileCommentsData, fileComments, shared, commentCache,
                           storage, now, activeView, lines, failures>>

(***************************************************************************)
(* removeComment(file, highlight)                                          *)
(***************************************************************************)
\* a test for emptiness that never succeeds
lengthNeverZero(container) == FALSE

\* Object.keys(this.data[filePath]).length === 0, comments.length === 0
lengthIsZero(container) == Len(container) = 0

removeComment(file, highlightId, ok) ==
    IF HasHighlight(data, file, highlightId)
    THEN LET rest == ObjDel(ObjGet(data, file), highlightId)
             d2 == IF lengthIsZero(rest) THEN ObjDel(data, file) ELSE ObjSet(data, file, rest)
         IN /\ data' = d2
            /\ storage' = IF ok THEN saveComments(d2, fileCommentsData, fileComments)
                          ELSE storage
            /\ ret' = Returned("removeComment", file, highlightId, TRUE, TRUE, ok)
            /\ failures' = failures + rejected(TRUE, ok)
            /\ UNCHANGED <<typed, answer, lastIndex, chatState, fileCommentsData, fileComments, shared, commentCache, now,
                           activeView, lines>>
    ELSE /\ ret' = Returned("removeComment", file, highlightId, FALSE, FALSE, ok)
         /\ UNCHANGED <<typed, answer, lastIndex, chatState, data, fileCommentsData, fileComments, shared, commentCache,
                        storage, now, activeView, lines, failures>>

(***************************************************************************)
(* deleteFileComment(file, commentId)                                      *)
(***************************************************************************)
deleteFileComment(file, commentId, ok) ==
    LET comments == getFileOnlyComments(file)
        index == findIndex(comments, commentId)
    IN IF index # 0
       THEN LET c2 == SubSeq(comments, 1, index - 1) \o SubSeq(comments, index + 1, Len(comments))
                fc == IF lengthIsZero(c2) THEN ObjDel(fileComments, file)
                      ELSE ObjSet(fileComments, file, c2)
            IN /\ fileComments' = fc
               /\ fileCommentsData' = mirror(fileCommentsData, shared, file, c2)
               /\ shared' = IF lengthIsZero(c2) THEN shared \ {file} ELSE shared
               /\ storage' = IF ok THEN saveComments(data, fileCommentsData', fc)
                             ELSE storage
               /\ ret' = Returned("deleteFileComment", file, commentId, TRUE, TRUE, ok)
               /\ failures' = failures + rejected(TRUE, ok)
               /\ UNCHANGED <<typed, answer, lastIndex, chatState, data, commentCache, now, activeView, lines>>
       ELSE /\ ret' = Returned("deleteFileComment", file, commentId, FALSE, FALSE, ok)
            /\ UNCHANGED <<typed, answer, lastIndex, chatState, data, fileCommentsData, fileComments, shared, commentCache,
                           storage, now, activeView, lines, failures>>

(***************************************************************************)
(* cleanupComments(existingFiles)                                          *)
(***************************************************************************)
cleanupComments(existingFiles, ok) ==
    LET d2 == SelectSeq(data, LAMBDA e : e.k \in existingFiles)
        fcd2 == SelectSeq(fileCommentsData, LAMBDA e : e.k \in existingFiles)
        changed == Len(d2) # Len(data) \/ Len(fcd2) # Len(fileCommentsData)
    IN /\ data' = d2
       /\ fileCommentsData' = fcd2
       /\ shared' = shared \cap existingFiles
       /\ storage' = IF changed /\ ok THEN saveComments(d2, fcd2, fileComments)
                     ELSE storage
       /\ ret' = Returned("cleanupComments", NoFile, existingFiles, changed, changed, ok)
       /\ failures' = failures + rejected(changed, ok)
       /\ UNCHANGED <<typed, answer, lastIndex, chatState, fileComments, commentCache, now, activeView, lines>>

(***************************************************************************)
(* clearAllComments()                                                      *)
(***************************************************************************)
clearAllComments(ok) ==
    /\ data' = <<>>
    /\ fileCommentsData' = <<>>
    /\ shared' = {}
    /\ storage' = IF ok THEN saveComments(<<>>, <<>>, fileComments) ELSE storage
    /\ ret' = Returned("clearAllComments", NoFile, <<>>, TRUE, TRUE, ok)
    /\ failures' = failures + rejected(TRUE, ok)
    /\ UNCHANGED <<typed, answer, lastIndex, chatState, fileComments, commentCache, now, activeView, lines>>

(***************************************************************************)
(* loadVisibleComments(visibleParagraphIds) and pruneCache()               *)
(***************************************************************************)
\* pruneCache keeping one entry too many
pruneCacheOffByOne(cache) ==
    IF Len(cache) > maxCacheSize + 1
    THEN LET entriesToDelete == SubSeq(ObjKeys(cache), 1, Len(cache) - maxCacheSize - 1)
         IN SelectSeq(cache, LAMBDA e : e.k \notin Range(entriesToDelete))
    ELSE cache

\* pruneCache deleting from the end of the key order
pruneCacheNewest(cache) ==
    IF Len(cache) > maxCacheSize
    THEN LET entriesToDelete == SubSeq(ObjKeys(cache), maxCacheSize + 1, Len(cache))
         IN SelectSeq(cache, LAMBDA e : e.k \notin Range(entriesToDelete))
    ELSE cache

pruneCache(cache) ==
    IF Len(cache) > maxCacheSize
    THEN LET entriesToDelete == SubSeq(ObjKeys(cache), 1, Len(cache) - maxCacheSize)
         IN SelectSeq(cache, LAMBDA e : e.k \notin Range(entriesToDelete))
    ELSE cache

RECURSIVE cacheAll(_, _, _)
cacheAll(cache, currentFile, ids) ==
    IF ids = <<>> THEN cache
    ELSE cacheAll(ObjSet(cache, Head(ids), getCommentsByParagraphId(currentFile, Head(ids))),
                  currentFile, Tail(ids))

loadVisibleComments(visibleParagraphIds) ==
    /\ commentCache' = IF activeView.file = NoFile THEN commentCache
                       ELSE pruneCache(cacheAll(commentCache, activeView.file,
                                                visibleParagraphIds))
    /\ ret' = Returned("loadVisibleComments", activeView.file, visibleParagraphIds,
                       activeView.file # NoFile, FALSE, TRUE)
    /\ UNCHANGED <<typed, answer, lastIndex, chatState, data, fileCommentsData, fileComments, shared, storage, now,
                   activeView, lines, failures>>

(***************************************************************************)
(* loadComments()                                                          *)
(***************************************************************************)
\* data?.comments || {} and data?.fileComments || {}
loadedComments(blob) == IF blob.present THEN blob.comments ELSE <<>>

\* a load that reads a key the blob does not have
loadedFileCommentsWrongKey(blob) == <<>>

loadedFileComments(blob) == IF blob.present THEN blob.fileComments ELSE <<>>

\* `await this.plugin.loadData()` is not wrapped in a try/catch either
awaitLoad(readOk) == IF readOk THEN "ok" ELSE "error"

loadComments(readOk) ==
    IF readOk
    THEN /\ data' = loadedComments(storage)
         /\ fileCommentsData' = loadedFileComments(storage)
         /\ fileComments' = loadedFileComments(storage)
         /\ shared' = ObjKeySet(loadedFileComments(storage))
         /\ ret' = [Returned("loadComments", NoFile, <<>>, storage.present, FALSE, TRUE)
                        EXCEPT !.status = awaitLoad(readOk)]
         /\ UNCHANGED <<typed, answer, lastIndex, chatState, commentCache, storage, now, activeView, lines, failures>>
    ELSE /\ ret' = [Returned("loadComments", NoFile, <<>>, FALSE, FALSE, TRUE)
                        EXCEPT !.status = awaitLoad(readOk)]
         /\ UNCHANGED <<typed, answer, lastIndex, chatState, data, fileCommentsData, fileComments, shared, commentCache,
                        storage, now, activeView, lines, failures>>

(***************************************************************************)
(* The environment: the clock and the workspace.                           *)
(***************************************************************************)
Tick ==
    /\ now < MaxClock
    /\ now' = now + 1
    /\ UNCHANGED <<typed, answer, lastIndex, chatState, data, fileCommentsData, fileComments, shared, commentCache, storage,
                   activeView, lines, failures, ret>>

SetActiveView(view) ==
    /\ activeView' = view
    /\ UNCHANGED <<typed, answer, lastIndex, chatState, data, fileCommentsData, fileComments, shared, commentCache, storage,
                   now, lines, failures, ret>>

(***************************************************************************)
(* HighlightService (src/src/services/HighlightService.ts).                *)
(*                                                                         *)
(* HIGHLIGHT_REGEX is the alternation of three patterns: `==\s*(.*?)\s*==`,*)
(* the mark element and the span element with a background colour.  The    *)
(* matcher below follows the backtracking order of the engine: a greedy    *)
(* \s* takes the longest run first, a lazy (.*?) the shortest, and `.`     *)
(* does not match a line break.  Tags carry the attributes of TagOpen and  *)
(* SpanOpen only: a mark element without attributes and a span element     *)
(* with style='background:#abc'.  Indices are 1-based in the operators and *)
(* 0-based in the match and highlight records, as in the code.             *)
(***************************************************************************)
Undefined == <<"undefined">>

EqEq == <<"=", "=">>
TagOpen == <<"<", "m", "a", "r", "k">>
MarkOpen == TagOpen \o <<">">>
MarkClose == <<"<", "/", "m", "a", "r", "k", ">">>
SpanColor == <<"#", "a", "b", "c">>
SpanOpen ==
    <<"<", "s", "p", "a", "n", " ", "s", "t", "y", "l", "e", "=", "'", "b", "a", "c", "k",
      "g", "r", "o", "u", "n", "d", ":">> \o SpanColor \o <<"'", ">">>
SpanClose == <<"<", "/", "s", "p", "a", "n", ">">>

Whitespace == {" ", "\n", "\t"}

StartsWithAt(s, i, lit) ==
    i + Len(lit) - 1 <= Len(s) /\ SubSeq(s, i, i + Len(lit) - 1) = lit

\* the index after the longest run of whitespace starting at i
RECURSIVE SkipSpaces(_, _)
SkipSpaces(s, i) ==
    IF i <= Len(s) /\ s[i] \in Whitespace THEN SkipSpaces(s, i + 1) ELSE i

\* the opening part of an alternative at i: the index after it, or 0
openEnd(kind, s, i) ==
    CASE kind = "doubleEqual" -> IF StartsWithAt(s, i, EqEq) THEN i + 2 ELSE 0
      [] kind = "markText" ->
            IF StartsWithAt(s, i, TagOpen)
            THEN LET j == SkipSpaces(s, i + Len(TagOpen))
                 IN IF j <= Len(s) /\ s[j] = ">" THEN j + 1 ELSE 0
            ELSE 0
      [] kind = "spanText" -> IF StartsWithAt(s, i, SpanOpen) THEN i + Len(SpanOpen) ELSE 0

\* the closing part of an alternative at e (`\s*==`, `</mark>`, `\s*</span>`):
\* the index after it, or 0
closeEnd(kind, s, e) ==
    CASE kind = "doubleEqual" ->
            LET j == SkipSpaces(s, e) IN IF StartsWithAt(s, j, EqEq) THEN j + 2 ELSE 0
      [] kind = "markText" -> IF StartsWithAt(s, e, MarkClose) THEN e + Len(MarkClose) ELSE 0
      [] kind = "spanText" ->
            LET j == SkipSpaces(s, e)
            IN IF StartsWithAt(s, j, SpanClose) THEN j + Len(SpanClose) ELSE 0

\* (.*?) with its capture ending at e: the end (exclusive) of the shortest
\* capture after which the closing part matches, or 0; the capture grows by
\* one character that is not a line break at a time
RECURSIVE lazyEnd(_, _, _)
lazyEnd(kind, s, e) ==
    IF closeEnd(kind, s, e) # 0 THEN e
    ELSE IF e > Len(s) \/ s[e] = "\n" THEN 0
    ELSE lazyEnd(kind, s, e + 1)

\* the leading \s* ending at a, given back one character at a time down to
\* `after` until the rest of the pattern matches: the start of the capture, or 0
RECURSIVE backtrackStart(_, _, _, _)
backtrackStart(kind, s, a, after) ==
    IF lazyEnd(kind, s, a) # 0 THEN a
    ELSE IF a = after THEN 0
    ELSE backtrackStart(kind, s, a - 1, after)

\* the start of the capture: after the leading \s* of the delimiter and span
\* patterns, at once in the mark pattern
captureStart(kind, s, after) ==
    backtrackStart(kind, s, IF kind = "markText" THEN after ELSE SkipSpaces(s, after), after)

NoMatch ==
    [index |-> -1, fullLength |-> 0, doubleEqual |-> Undefined, markBg |-> Undefined,
     markText |-> Undefined, spanBg |-> Undefined, spanText |-> Undefined]

\* one alternative tried at i
alternative(kind, s, i) ==
    LET after == openEnd(kind, s, i)
        a == IF after = 0 THEN 0 ELSE captureStart(kind, s, after)
    IN IF a = 0 THEN NoMatch
       ELSE LET e == lazyEnd(kind, s, a)
                captured == SubSeq(s, a, e - 1)
            IN [index |-> i - 1,
                fullLength |-> closeEnd(kind, s, e) - i,
                doubleEqual |-> IF kind = "doubleEqual" THEN captured ELSE Undefined,
                markBg |-> Undefined,
                markText |-> IF kind = "markText" THEN captured ELSE Undefined,
                spanBg |-> IF kind = "spanText" THEN SpanColor ELSE Undefined,
                spanText |-> IF kind = "spanText" THEN captured ELSE Undefined]

\* the alternation at i: the first alternative that matches
matchAt(s, i) ==
    IF alternative("doubleEqual", s, i).index # -1 THEN alternative("doubleEqual", s, i)
    ELSE IF alternative("markText", s, i).index # -1 THEN alternative("markText", s, i)
    ELSE alternative("spanText", s, i)

\* the match attempted at i, then at i + 1, ...: the leftmost match from i
RECURSIVE scanFrom(_, _)
scanFrom(s, i) ==
    IF i > Len(s) THEN NoMatch
    ELSE IF matchAt(s, i).index # -1 THEN matchAt(s, i)
    ELSE scanFrom(s, i + 1)

\* regex.exec(content) with regex.lastIndex = start
exec(s, start) == scanFrom(s, start + 1)

\* a loop whose pattern resumes one character after the start of each match
RECURSIVE matchAllOverlapping(_, _)
matchAllOverlapping(s, start) ==
    LET m == exec(s, start)
    IN IF m.index = -1 THEN <<>> ELSE <<m>> \o matchAllOverlapping(s, m.index + 1)

\* the matches of the loop `while ((match = regex.exec(content)) !== null)`
RECURSIVE matchAll(_, _)
matchAll(s, start) ==
    LET m == exec(s, start)
    IN IF m.index = -1 THEN <<>> ELSE <<m>> \o matchAll(s, m.index + m.fullLength)

\* a || b on strings and undefined
Truthy(x) == x # Undefined /\ x # <<>>

JsOr(a, b) == IF Truthy(a) THEN a ELSE b

\* String.prototype.trim
RECURSIVE trim(_)
trim(s) ==
    IF s = <<>> THEN s
    ELSE IF Head(s) \in Whitespace THEN trim(Tail(s))
    ELSE IF s[Len(s)] \in Whitespace THEN trim(SubSeq(s, 1, Len(s) - 1))
    ELSE s

Abs(n) == IF n < 0 THEN -n ELSE n

\* lastIndexOf("\n") in content.substring(0, position): 0-based, -1 when absent
lastIndexOfNewline(content, position) ==
    LET nl == {k \in 0..(position - 1) : content[k + 1] = "\n"}
    IN IF nl = {} THEN -1 ELSE CHOOSE k \in nl : \A j \in nl : j <= k

\* getParagraphOffset measured from the character after the line break
getParagraphOffsetPastNewline(content, position) ==
    LET lastNewline == lastIndexOfNewline(content, position)
    IN IF lastNewline = -1 THEN position ELSE position - lastNewline - 1

getParagraphOffset(content, position) ==
    LET lastNewline == lastIndexOfNewline(content, position)
    IN IF lastNewline = -1 THEN position ELSE position - lastNewline

\* an id made of the clock reading alone
HighlightIdOfClock(t, index) == <<"h", "-">> \o NumToStr(t)

\* `highlight-${Date.now()}-${matchArray.index}`
HighlightId(t, index) == <<"h", "-">> \o NumToStr(t) \o <<"-">> \o NumToStr(index)

\* isDuplicate comparing the texts only
isDuplicateTextOnly(highlights, index, text) ==
    \E k \in 1..Len(highlights) : highlights[k].text = text

isDuplicate(highlights, index, text) ==
    \E k \in 1..Len(highlights) :
       Abs(highlights[k].position - index) < 10 /\ highlights[k].text = text

\* const text = doubleEqual || markText || spanText || ''
resolveText(m) == JsOr(JsOr(JsOr(m.doubleEqual, m.markText), m.spanText), <<>>)

\* Date.now() is read for the id, for createdAt and for updatedAt
ReadsPerHighlight == 3

\* the body of the loop over the matches
RECURSIVE collect(_, _, _, _)
collect(ms, highlights, content, r) ==
    IF ms = <<>> THEN highlights
    ELSE LET m == Head(ms)
             text == resolveText(m)
             backgroundColor == JsOr(JsOr(m.markBg, m.spanBg), Undefined)
             \* the clock is read three times for each occurrence that is kept
             k == ReadsPerHighlight * Len(highlights)
             h == [text |-> text, position |-> m.index,
                   paragraphOffset |-> getParagraphOffset(content, m.index),
                   backgroundColor |-> backgroundColor,
                   id |-> HighlightId(r[k + 1], m.index), comments |-> <<>>,
                   createdAt |-> r[k + 2], updatedAt |-> r[k + 3],
                   originalLength |-> m.fullLength]
         IN collect(Tail(ms),
                    IF ~isDuplicate(highlights, m.index, text) /\ Truthy(text)
                    THEN Append(highlights, h) ELSE highlights,
                    content, r)

Reverse(s) == [i \in 1..Len(s) |-> s[Len(s) + 1 - i]]

\* a pattern object that is the shared static one, scanning on from where it stopped
sharedRegExp(staticLastIndex) == [static |-> TRUE, lastIndex |-> staticLastIndex]

\* new RegExp(HighlightService.HIGHLIGHT_REGEX): an object of its own that
\* starts at 0 wherever the shared pattern stands
newRegExp(staticLastIndex) == [static |-> FALSE, lastIndex |-> 0]

\* where a pattern stands after one exec from start
lastIndexAfterExec(content, start) ==
    LET m == exec(content, start)
    IN IF m.index = -1 THEN 0 ELSE m.index + m.fullLength

\* the final sort with the operands of the comparator exchanged
extractHighlightsDescending(content, r) ==
    LET regex == newRegExp(lastIndex)
    IN Reverse(SortBy(collect(matchAll(content, regex.lastIndex), <<>>, content, r),
                      "position"))

extractHighlights(content, r) ==
    LET regex == newRegExp(lastIndex)
    IN SortBy(collect(matchAll(content, regex.lastIndex), <<>>, content, r), "position")

\* hasHighlights: the first match decides
hasHighlights(content) ==
    LET regex == newRegExp(lastIndex)
        m == exec(content, regex.lastIndex)
    IN IF m.index # -1
       THEN LET text == JsOr(JsOr(m.doubleEqual, m.markText), m.spanText)
            IN text # Undefined /\ trim(text) # <<>>
       ELSE FALSE

(***************************************************************************)
(* Calls of HighlightService on the text typed so far.                     *)
(***************************************************************************)
storeState ==
    <<data, fileCommentsData, fileComments, shared, commentCache, storage, now,
      activeView, lines, failures, ret>>

RECURSIVE Flatten(_)
Flatten(pieces) == IF pieces = <<>> THEN <<>> ELSE Head(pieces) \o Flatten(Tail(pieces))

\* the content handed to the service
buffer == Flatten(typed)

Type(piece) ==
    /\ typed' = Append(typed, piece)
    /\ answer' = NoResult
    /\ UNCHANGED <<storeState, lastIndex, chatState>>

\* the buffer is emptied: the next calls are on other texts, or on the same again
Erase ==
    /\ typed # <<>>
    /\ typed' = <<>>
    /\ answer' = NoResult
    /\ UNCHANGED <<storeState, lastIndex, chatState>>

\* r: the readings of the clock during the call
CallExtractHighlights(r) ==
    \E content \in {buffer}, regex \in {newRegExp(lastIndex)} :
       LET value == extractHighlights(content, r)
       IN /\ answer' = [op |-> "extractHighlights", content |-> content, value |-> value]
          \* the exec that ends the loop leaves its pattern at 0
          /\ lastIndex' = IF regex.static THEN 0 ELSE lastIndex
          /\ now' = IF value = <<>> THEN now ELSE r[ReadsPerHighlight * Len(value)]
          /\ UNCHANGED <<data, fileCommentsData, fileComments, shared, commentCache,
                         storage, activeView, lines, failures, ret, typed, chatState>>

CallHasHighlights ==
    \E content \in {buffer}, regex \in {newRegExp(lastIndex)} :
       /\ answer' = [op |-> "hasHighlights", content |-> content,
                     value |-> hasHighlights(content)]
       /\ lastIndex' = IF regex.static THEN lastIndexAfterExec(content, regex.lastIndex)
                                       ELSE lastIndex
       /\ UNCHANGED <<storeState, typed, chatState>>

(***************************************************************************)
(* ChatView: the chat window.  An event handler runs without interruption  *)
(* up to its await; the call of chatService.sendMessage it waits for       *)
(* settles later, with a response or with an error, and the rest of the    *)
(* handler runs then.                                                      *)
(***************************************************************************)
\* the fixed opening of the message that carries the dropped texts, and the
\* fixed opening of the prompt that follows it
AnalyzeHeading == <<"A", ":", "\n", "\n">>
PromptHeading == <<"P", ":">>
PreviewSeparator == <<"\n", "\n", "-", "-", "-", "\n", "\n">>

\* Array.prototype.join
RECURSIVE join(_, _)
join(texts, separator) ==
    IF texts = <<>> THEN <<>>
    ELSE IF Len(texts) = 1 THEN texts[1]
    ELSE texts[1] \o separator \o join(Tail(texts), separator)

storeAndService == <<storeState, typed, answer, lastIndex>>

\* a guard that lets a send through while a request is in flight
returnsEarlyOnEmpty(content, processing) == content = <<>>

\* if (!content || this.isProcessing) return
returnsEarly(content, processing) == content = <<>> \/ processing

\* handleSendMessage from its entry to the await of chatService.sendMessage;
\* value is the text of the textarea.  The element of class
\* highlight-chat-history is made by the constructor, so the query for it
\* always finds it.
handleSendMessage(value) ==
    LET content == trim(value)
    IN IF returnsEarly(content, isProcessing)
       THEN /\ event' = [op |-> "send", value |-> value, accepted |-> FALSE]
            /\ UNCHANGED <<isProcessing, chatHistory, draggedContents, pending,
                           storeAndService>>
       ELSE LET dragged == Len(draggedContents) > 0
                textsToAnalyze ==
                    join([i \in 1..Len(draggedContents) |-> draggedContents[i].text],
                         PreviewSeparator)
                h1 == IF dragged
                      THEN Append(chatHistory,
                                  [role |-> "user",
                                   content |-> AnalyzeHeading \o textsToAnalyze])
                      ELSE chatHistory
                messageToSend == content
                userMessage == IF dragged THEN PromptHeading \o content ELSE content
                h2 == Append(h1, [role |-> "user", content |-> userMessage])
            IN /\ isProcessing' = TRUE
               /\ draggedContents' = IF dragged THEN <<>> ELSE draggedContents
               /\ chatHistory' = h2
               /\ pending' = Append(pending, [message |-> messageToSend, history |-> h2])
               /\ event' = [op |-> "send", value |-> value, accepted |-> TRUE]
               /\ UNCHANGED storeAndService

\* the rest of handleSendMessage once the i-th call in flight has settled:
\* the response joins the history, an error is logged; finally in both cases
sendMessageSettled(i, resolved, response) ==
    /\ i \in 1..Len(pending)
    /\ chatHistory' = IF resolved
                      THEN Append(chatHistory, [role |-> "assistant", content |-> response])
                      ELSE chatHistory
    /\ isProcessing' = FALSE
    /\ pending' = SubSeq(pending, 1, i - 1) \o SubSeq(pending, i + 1, Len(pending))
    /\ event' = [op |-> "settle", value |-> response, accepted |-> resolved]
    /\ UNCHANGED <<draggedContents, storeAndService>>

\* the drop handler of the chat history element
drop(text) ==
    LET isDuplicateText == \E i \in 1..Len(draggedContents) : draggedContents[i].text = text
        pushed == text # <<>> /\ ~isDuplicateText
    IN /\ draggedContents' = IF pushed THEN Append(draggedContents, [text |-> text])
                             ELSE draggedContents
       /\ event' = [op |-> "drop", value |-> text, accepted |-> pushed]
       /\ UNCHANGED <<isProcessing, chatHistory, pending, storeAndService>>

\* the click on the delete button of the preview card at index
deletePreview(index) ==
    /\ index \in 1..Len(draggedContents)
    /\ draggedContents' = SubSeq(draggedContents, 1, index - 1)
                             \o SubSeq(draggedContents, index + 1, Len(draggedContents))
    /\ event' = [op |-> "delete", value |-> <<>>, accepted |-> TRUE]
    /\ UNCHANGED <<isProcessing, chatHistory, pending, storeAndService>>

(***************************************************************************)
(* Inputs of the specifications.  The storage collaborator rejects at most *)
(* MaxFailures writes.                                                     *)
(***************************************************************************)
WriteOutcomes == IF failures < MaxFailures THEN BOOLEAN ELSE {TRUE}

\* every reading of the clock within one call falls in the same millisecond
SameTick(n) == {[i \in 1..n |-> now]}

MissingId == <<"n", "o">>

(***************************************************************************)
(* Spec: persistence.  Both mappings, two documents, storage that may      *)
(* reject writes and reads; all calls fall within one millisecond and no   *)
(* markdown editor is open.                                                *)
(***************************************************************************)
StoreHighlightIds == {<<"h", "1">>}
StoreFileCommentIds == {FileCommentId(0, <<"r">>), MissingId}
StoreInputs == {h \in HighlightInputs(StoreHighlightIds, now) : h.position = 0}

\* the bounds on what the store holds
Bounded ==
    /\ CountHighlights(data') <= MaxHighlights
    /\ CountFileComments(fileComments') <= MaxFileComments
    /\ \A i \in 1..Len(data') : \A j \in 1..Len(data'[i].v) :
          Len(data'[i].v[j].v.comments) <= MaxComments
    /\ \A p \in Paths : \A i \in 1..Len(lines'[p]) : Len(lines'[p][i]) <= MaxLineLen

Next ==
    \/ \E file \in Paths, ok \in WriteOutcomes, h \in StoreInputs :
         addComment(file, h, <<"x">>, ok) /\ Bounded
    \/ \E file \in Paths, c \in Contents, ok \in WriteOutcomes, r \in SameTick(3) :
         addFileComment(file, c, <<"r">>, r, ok) /\ Bounded
    \/ \E file \in Paths, id \in StoreHighlightIds, ok \in WriteOutcomes, r \in SameTick(4) :
         updateComment(file, id, <<"c">>, r, ok) /\ Bounded
    \/ \E file \in Paths, id \in StoreFileCommentIds, c \in Contents, ok \in WriteOutcomes :
         updateFileComment(file, id, c, ok)
    \/ \E file \in Paths, id \in StoreHighlightIds, ok \in WriteOutcomes :
         removeComment(file, id, ok)
    \/ \E file \in Paths, id \in StoreFileCommentIds, ok \in WriteOutcomes :
         deleteFileComment(file, id, ok)
    \/ \E live \in SUBSET Paths, ok \in WriteOutcomes : cleanupComments(live, ok)
    \/ \E ok \in WriteOutcomes : clearAllComments(ok)
    \/ \E readOk \in BOOLEAN : loadComments(readOk)

Spec == Init /\ [][Next]_vars

(***************************************************************************)
(* SpecHighlights: highlights under a running clock and a markdown editor. *)
(* Writes succeed.                                                         *)
(***************************************************************************)
EditorViews ==
    {[file |-> NoFile, editor |-> FALSE], [file |-> PathA, editor |-> TRUE],
     [file |-> PathB, editor |-> TRUE]}

NextHighlights ==
    \/ \E file \in Paths, b \in GeneratedBlockIds, h \in HighlightInputs(StoreHighlightIds, now) :
         addComment(file, h, b, TRUE) /\ Bounded
    \/ \E file \in Paths, id \in StoreHighlightIds, r \in ClockReads(4) :
         updateComment(file, id, <<"c">>, r, TRUE) /\ Bounded
    \/ \E file \in Paths, id \in StoreHighlightIds : removeComment(file, id, TRUE)
    \/ Tick
    \/ \E view \in EditorViews : SetActiveView(view)

SpecHighlights == Init /\ [][NextHighlights]_vars

(***************************************************************************)
(* SpecCache: the paragraph cache over a store of highlights.              *)
(***************************************************************************)
VisibleParagraphIds ==
    {GivenParagraphId} \cup {<<"v">> \o NumToStr(i) : i \in 1..maxCacheSize}

\* short lists, repeated ids included, and the lists of more distinct ids than
\* the cache holds; a longer list with repeats acts as the list without them
VisibleLists ==
    UNION {[1..n -> VisibleParagraphIds] : n \in 0..2}
    \cup {ids \in [1..(maxCacheSize + 1) -> VisibleParagraphIds] :
             \A i, j \in 1..(maxCacheSize + 1) : ids[i] = ids[j] => i = j}

CacheViews == {[file |-> NoFile, editor |-> FALSE], [file |-> PathA, editor |-> FALSE]}

CacheInputs ==
    {h \in HighlightInputs(StoreHighlightIds, now) :
        h.paragraphId = GivenParagraphId /\ ~h.isVirtual}

NextCache ==
    \/ \E ids \in VisibleLists : loadVisibleComments(ids)
    \/ \E h \in CacheInputs : addComment(PathA, h, <<"x">>, TRUE) /\ Bounded
    \/ \E id \in StoreHighlightIds : removeComment(PathA, id, TRUE)
    \/ \E view \in CacheViews : SetActiveView(view)

SpecCache == Init /\ [][NextCache]_vars

(***************************************************************************)
(* SpecListing: the listings of highlights.  Two documents, highlights of  *)
(* either kind at either position, with or without a paragraphId; no       *)
(* markdown editor, writes succeed.                                        *)
(***************************************************************************)
ListingIds == {<<"h", "1">>, <<"h", "2">>}

BoundedListing == CountHighlights(data') <= MaxListed

NextListing ==
    \/ \E file \in Paths, h \in HighlightInputs(ListingIds, now) :
         addComment(file, h, <<"x">>, TRUE) /\ BoundedListing
    \/ \E file \in Paths, id \in ListingIds : removeComment(file, id, TRUE)

SpecListing == Init /\ [][NextListing]_vars

(***************************************************************************)
(* SpecFrame: both mappings over two documents that hold records at the    *)
(* same time, under the same ids.  No markdown editor is open; writes and  *)
(* reads succeed.                                                          *)
(***************************************************************************)
FrameInputs ==
    {h \in HighlightInputs(StoreHighlightIds, now) :
        h.position = 0 /\ ~h.isVirtual /\ h.paragraphId = GivenParagraphId}

BoundedFrame ==
    /\ CountHighlights(data') <= MaxListed
    /\ CountFileComments(fileComments') <= MaxListed
    /\ \A i \in 1..Len(data') : \A j \in 1..Len(data'[i].v) :
          Len(data'[i].v[j].v.comments) <= MaxComments

NextFrame ==
    \/ \E file \in Paths, h \in FrameInputs : addComment(file, h, <<"x">>, TRUE) /\ BoundedFrame
    \/ \E file \in Paths, r \in SameTick(3) :
         addFileComment(file, <<"c">>, <<"r">>, r, TRUE) /\ BoundedFrame
    \/ \E file \in Paths, id \in StoreHighlightIds, r \in SameTick(4) :
         updateComment(file, id, <<"c">>, r, TRUE) /\ BoundedFrame
    \/ \E file \in Paths, id \in StoreFileCommentIds :
         updateFileComment(file, id, <<"d">>, TRUE)
    \/ \E file \in Paths, id \in StoreHighlightIds : removeComment(file, id, TRUE)
    \/ \E file \in Paths, id \in StoreFileCommentIds : deleteFileComment(file, id, TRUE)
    \/ \E live \in SUBSET Paths : cleanupComments(live, TRUE)
    \/ loadComments(TRUE)

SpecFrame == Init /\ [][NextFrame]_vars

(***************************************************************************)
(* SpecKeys: the store from empty under the calls that add and remove      *)
(* records, never loaded: two documents, up to MaxListed highlights and    *)
(* MaxListed file comments.  No markdown editor is open; writes succeed.   *)
(***************************************************************************)
KeysInputs ==
    {h \in HighlightInputs(ListingIds, now) :
        h.position = 0 /\ h.paragraphId = GivenParagraphId}

KeysFileCommentIds == {FileCommentId(0, x) : x \in FileCommentSuffixes}

BoundedKeys ==
    /\ CountHighlights(data') <= MaxListed
    /\ CountFileComments(fileComments') <= MaxListed

NextKeys ==
    \/ \E file \in Paths, h \in KeysInputs : addComment(file, h, <<"x">>, TRUE) /\ BoundedKeys
    \/ \E file \in Paths, id \in ListingIds : removeComment(file, id, TRUE)
    \/ \E file \in Paths, x \in FileCommentSuffixes, r \in SameTick(3) :
         addFileComment(file, <<"c">>, x, r, TRUE) /\ BoundedKeys
    \/ \E file \in Paths, id \in KeysFileCommentIds : deleteFileComment(file, id, TRUE)
    \/ \E live \in SUBSET Paths : cleanupComments(live, TRUE)
    \/ clearAllComments(TRUE)

SpecKeys == Init /\ [][NextKeys]_vars

(***************************************************************************)
(* SpecComments: the comments of one highlight, up to MaxThread of them,   *)
(* appended under a running clock: several calls may fall within one       *)
(* millisecond.  No markdown editor is open; writes succeed.               *)
(***************************************************************************)
BoundedComments ==
    \A i \in 1..Len(data') : \A j \in 1..Len(data'[i].v) :
       Len(data'[i].v[j].v.comments) <= MaxThread

NextComments ==
    \/ \E h \in CacheInputs : addComment(PathA, h, <<"x">>, TRUE)
    \/ \E content \in Contents, id \in StoreHighlightIds, r \in ClockReads(4) :
         updateComment(PathA, id, content, r, TRUE) /\ BoundedComments
    \/ \E id \in StoreHighlightIds : removeComment(PathA, id, TRUE)
    \/ Tick

SpecComments == Init /\ [][NextComments]_vars

(***************************************************************************)
(* SpecThread: the file comments of one document, up to MaxThread of them, *)
(* created, edited and deleted in any order, before and after a load,      *)
(* under a running clock.  Writes and reads succeed.                       *)
(***************************************************************************)
ThreadSuffixes == {<<"r">>, <<"s">>, <<"t">>}
ThreadIds == {FileCommentId(t, x) : t \in 0..MaxClock, x \in ThreadSuffixes}

BoundedThread == CountFileComments(fileComments') <= MaxThread

NextThread ==
    \/ \E x \in ThreadSuffixes, r \in SameTick(3) :
         addFileComment(PathA, <<"c">>, x, r, TRUE) /\ BoundedThread
    \/ \E id \in ThreadIds : updateFileComment(PathA, id, <<"d">>, TRUE)
    \/ \E id \in ThreadIds : deleteFileComment(PathA, id, TRUE)
    \/ loadComments(TRUE)
    \/ Tick

SpecThread == Init /\ [][NextThread]_vars

(***************************************************************************)
(* SpecExtract: HighlightService on texts of up to MaxSegments pieces.  A  *)
(* piece is a fragment (delimiter, letter, blank, line break, an opening   *)
(* or closing mark tag) or a highlight of one of the three encodings       *)
(* around an inner text that may be empty or blank.                        *)
(***************************************************************************)
Inner == {<<>>, <<" ">>, <<"x">>, <<" ", "x", " ">>}

Wrap(kind, inner) ==
    CASE kind = "doubleEqual" -> EqEq \o inner \o EqEq
      [] kind = "markText" -> MarkOpen \o inner \o MarkClose
      [] kind = "spanText" -> SpanOpen \o inner \o SpanClose

Pieces ==
    {EqEq, <<"x">>, <<" ">>, <<"\n">>, MarkOpen, MarkClose}
    \cup {Wrap(kind, inner) : kind \in {"doubleEqual", "markText", "spanText"}, inner \in Inner}

NextExtract ==
    \/ \E piece \in Pieces : Len(typed) < MaxSegments /\ Type(piece)
    \/ \E r \in SameTick(ReadsPerHighlight * MaxSegments) : CallExtractHighlights(r)
    \/ CallHasHighlights

SpecExtract == Init /\ [][NextExtract]_vars

(***************************************************************************)
(* SpecReentrant: the two operations of HighlightService called in any     *)
(* order on texts that grow and are emptied, so that a text comes back     *)
(* after calls on other texts.                                             *)
(***************************************************************************)
NextReentrant ==
    \/ \E piece \in Pieces : Len(typed) < MaxSegments /\ Type(piece)
    \/ Erase
    \/ \E r \in SameTick(ReadsPerHighlight * MaxSegments) : CallExtractHighlights(r)
    \/ CallHasHighlights

SpecReentrant == Init /\ [][NextReentrant]_vars

(***************************************************************************)
(* SpecClock: extractHighlights while the clock runs.  The texts are made  *)
(* of highlights around one letter and of the letter itself; the readings  *)
(* of one call never decrease and may all be equal.                        *)
(***************************************************************************)
ClockPieces ==
    {<<"x">>} \cup {Wrap(kind, <<"x">>) : kind \in {"doubleEqual", "markText", "spanText"}}

NextClock ==
    \/ \E piece \in ClockPieces : Len(typed) < MaxSegments /\ Type(piece)
    \/ \E r \in ClockReads(ReadsPerHighlight * MaxSegments) : CallExtractHighlights(r)

SpecClock == Init /\ [][NextClock]_vars

(***************************************************************************)
(* SpecChat: the chat window under send, drop and delete events in any     *)
(* order, while the request in flight settles with a response or with an   *)
(* error at any moment.  A send may find the textarea empty, blank or      *)
(* still holding the text of the send before.                              *)
(***************************************************************************)
TextareaValues == {<<>>, <<" ">>, <<"q">>, <<" ", "w", " ">>}
DroppedTexts == {<<>>, <<"x">>, <<"y">>}
Responses == {<<"r">>}

BoundedChat ==
    /\ Len(chatHistory') <= MaxHistory
    /\ Len(draggedContents') <= MaxDragged

NextChat ==
    \/ \E value \in TextareaValues : handleSendMessage(value) /\ BoundedChat
    \/ \E i \in 1..Len(pending), response \in Responses :
         sendMessageSettled(i, TRUE, response) /\ BoundedChat
    \/ \E i \in 1..Len(pending) : sendMessageSettled(i, FALSE, <<>>)
    \/ \E text \in DroppedTexts : drop(text) /\ BoundedChat
    \/ \E index \in 1..MaxDragged : deletePreview(index)

SpecChat == Init /\ [][NextChat]_vars

(***************************************************************************)
(* C1: whenever loadVisibleComments has returned, the paragraph cache      *)
(* holds at most maxCacheSize entries, whatever lists of paragraph ids     *)
(* (longer than the capacity, with repeated ids) the calls were given.     *)
(***************************************************************************)
C1_CacheWithinCapacity == Len(commentCache) <= maxCacheSize

\* a list of more distinct ids than the capacity was refreshed into a full cache
C1_Witness ==
    /\ ret.op = "loadVisibleComments"
    /\ ret.found
    /\ Cardinality(Range(ret.arg)) > maxCacheSize
    /\ Len(commentCache) = maxCacheSize

(***************************************************************************)
(* C2: after cleanupComments(existingFiles) returns, every path that was   *)
(* stored and is not in existingFiles is gone from both mappings: its      *)
(* highlight listing and its file-comment listing are empty and the blob   *)
(* in durable storage holds it under neither key.                          *)
(***************************************************************************)
\* a step taken by a call of the store, not by the clock or the workspace
storeVars == <<data, fileCommentsData, fileComments, shared, commentCache, storage,
               lines, failures, ret>>

CallStep == storeVars' # storeVars

StoredPaths == ObjKeySet(data) \cup ObjKeySet(fileComments) \cup ObjKeySet(fileCommentsData)

C2_CleanupRemovesDeadPaths ==
    [][(CallStep /\ ret'.op = "cleanupComments" /\ ret'.status = "ok") =>
          \A p \in StoredPaths \ ret'.arg :
             /\ getFileComments(p)' = <<>>
             /\ getFileOnlyComments(p)' = <<>>
             /\ ~ObjHas(storage'.comments, p)
             /\ ~ObjHas(storage'.fileComments, p)]_vars

(***************************************************************************)
(* C3: after clearAllComments returns, both mappings are empty: every      *)
(* listing is empty and the blob written has empty `comments` and          *)
(* `fileComments`.                                                         *)
(***************************************************************************)
C3_ClearAllEmptiesBoth ==
    (ret.op = "clearAllComments" /\ ret.status = "ok") =>
        /\ \A p \in Paths : getFileComments(p) = <<>> /\ getFileOnlyComments(p) = <<>>
        /\ storage.comments = <<>>
        /\ storage.fileComments = <<>>

(***************************************************************************)
(* C4: after addComment(path, h) the listing of path has a record with the *)
(* id, text and position of h; after removeComment(path, h) the listing of *)
(* path has no record with h.id.                                           *)
(***************************************************************************)
C4_AddRemoveRoundTrip ==
    /\ ret.op = "addComment" =>
          \E i \in 1..Len(getFileComments(ret.path)) :
             /\ getFileComments(ret.path)[i].id = ret.arg.id
             /\ getFileComments(ret.path)[i].text = ret.arg.text
             /\ getFileComments(ret.path)[i].position = ret.arg.position
    /\ ret.op = "removeComment" =>
          \A i \in 1..Len(getFileComments(ret.path)) :
             getFileComments(ret.path)[i].id # ret.arg

\* a stored highlight was removed
C4_Witness == ret.op = "removeComment" /\ ret.found /\ ret.status = "ok"

(***************************************************************************)
(* C5: when a state-changing operation returns successfully, the blob in   *)
(* durable storage is the in-memory state the queries read: `comments` is  *)
(* the highlight mapping and `fileComments` the file-comment mapping, both *)
(* written by the one save of that call.                                   *)
(***************************************************************************)
MutatingOps ==
    {"addComment", "addFileComment", "updateComment", "updateFileComment",
     "removeComment", "deleteFileComment", "cleanupComments", "clearAllComments"}

C5_BlobEqualsMemory ==
    (ret.op \in MutatingOps /\ ret.found /\ ret.status = "ok") =>
        /\ ret.saveOk
        /\ storage.present
        /\ storage.comments = toJSONData(data)
        /\ storage.fileComments = toJSONFileComments(fileComments)

\* a file comment created in this session was persisted next to a highlight
C5_Witness ==
    /\ ret.op = "addFileComment"
    /\ ret.status = "ok"
    /\ data # <<>>
    /\ ~ObjHas(fileCommentsData, ret.path)

(***************************************************************************)
(* C6: a load that follows a successful persist gives, for every path,     *)
(* the same highlight listing and the same file-comment listing as the     *)
(* store that wrote the blob.                                              *)
(***************************************************************************)
C6_SaveLoadRoundTrip ==
    [][(CallStep /\ ret.saveOk /\ ret'.op = "loadComments" /\ ret'.status = "ok") =>
          \A p \in Paths :
             /\ getFileComments(p)' = getFileComments(p)
             /\ getFileOnlyComments(p)' = getFileOnlyComments(p)]_vars

\* a load brought back a highlight and a file comment
C6_Witness ==
    /\ ret.op = "loadComments"
    /\ ret.status = "ok"
    /\ data # <<>>
    /\ fileComments # <<>>

(***************************************************************************)
(* C7: loadComments never fails: when storage is absent or its read fails, *)
(* the call completes and leaves both mappings empty.                      *)
(***************************************************************************)
C7_LoadNeverFails ==
    ret.op = "loadComments" =>
        /\ ret.status = "ok"
        /\ ~ret.found => (data = <<>> /\ fileComments = <<>>)

(***************************************************************************)
(* C8: no mutating operation reports success after its write to durable    *)
(* storage failed: the failure reaches the caller.                         *)
(***************************************************************************)
C8_SaveFailurePropagates ==
    (ret.op \in MutatingOps /\ ret.saveCalled /\ ~ret.saveOk) => ret.status = "error"

\* the write of an operation was rejected
C8_Witness == ret.op = "updateComment" /\ ret.saveCalled /\ ~ret.saveOk

(***************************************************************************)
(* C9: updateComment and removeComment on a highlight that is not stored,  *)
(* updateFileComment and deleteFileComment on a comment that is not        *)
(* stored, return without error, leave both mappings unchanged and do not  *)
(* write to durable storage.                                               *)
(***************************************************************************)
MissingTarget ==
    \/ /\ ret'.op \in {"updateComment", "removeComment"}
       /\ \A i \in 1..Len(data) :
             data[i].k = ret'.path => \A j \in 1..Len(data[i].v) : data[i].v[j].k # ret'.arg
    \/ /\ ret'.op \in {"updateFileComment", "deleteFileComment"}
       /\ \A i \in 1..Len(fileComments) :
             fileComments[i].k = ret'.path =>
                \A j \in 1..Len(fileComments[i].v) : fileComments[i].v[j].id # ret'.arg

C9_NotFoundIsNoOp ==
    [][(CallStep /\ MissingTarget) =>
          /\ ret'.status = "ok"
          /\ ~ret'.saveCalled
          /\ data' = data
          /\ fileComments' = fileComments
          /\ storage' = storage]_vars

\* an operation named a comment that a non-empty document does not have
C9_Witness ==
    /\ ret.op = "deleteFileComment"
    /\ ~ret.found
    /\ ObjHas(fileComments, ret.path)

(***************************************************************************)
(* C10: updateComment on an existing highlight leaves its updatedAt        *)
(* strictly greater than before, also within one clock reading.            *)
(***************************************************************************)
updatedAtOf(d, path, id) == ObjGet(ObjGet(d, path), id).updatedAt

C10_UpdatedAtIncreases ==
    [][(CallStep /\ ret'.op = "updateComment" /\ HasHighlight(data, ret'.path, ret'.arg)) =>
          updatedAtOf(data', ret'.path, ret'.arg) > updatedAtOf(data, ret'.path, ret'.arg)]_vars

(***************************************************************************)
(* C11: the comment sequence of a highlight is append-only.  Across every  *)
(* store call, a highlight that is stored before and after the call keeps  *)
(* the comments it had, in the same order, at the front of its sequence;   *)
(* updateComment on it adds exactly one CommentItem at the end, with the   *)
(* given content; no addComment makes a comment disappear.                 *)
(***************************************************************************)
commentsOf(d, path, id) == ObjGet(ObjGet(d, path), id).comments

C11_CommentsAppendOnly ==
    [][CallStep =>
          \A p \in Paths : \A id \in StoreHighlightIds :
             (HasHighlight(data, p, id) /\ HasHighlight(data', p, id)) =>
                LET old == commentsOf(data, p, id)
                    new == commentsOf(data', p, id)
                IN /\ Len(new) >= Len(old)
                   /\ SubSeq(new, 1, Len(old)) = old
                   /\ (ret'.op = "updateComment" /\ ret'.path = p /\ ret'.arg = id) =>
                         /\ Len(new) = Len(old) + 1
                         /\ new[Len(new)].content \in Contents]_vars

(***************************************************************************)
(* C12: getFileComments(path) returns every stored highlight of the path   *)
(* exactly once, every virtual highlight before every non-virtual one,     *)
(* the virtual highlights in the order they were inserted and the          *)
(* non-virtual highlights in ascending position.                           *)
(***************************************************************************)
IsVirtual(h) == h.isVirtual

C12_ListingOrder ==
    \A p \in Paths :
       LET stored == ObjValues(HighlightsOf(data, p))
           listing == getFileComments(p)
       IN /\ Len(listing) = Len(stored)
          /\ Range(listing) = Range(stored)
          /\ \A i, j \in 1..Len(listing) :
                (listing[i].isVirtual /\ ~listing[j].isVirtual) => i < j
          /\ SelectSeq(listing, IsVirtual) = SelectSeq(stored, IsVirtual)
          /\ \A i, j \in 1..Len(listing) :
                (i < j /\ ~listing[i].isVirtual /\ ~listing[j].isVirtual) =>
                   listing[i].position <= listing[j].position

(***************************************************************************)
(* C13: getCommentsByParagraphId(path, paragraphId) returns exactly the    *)
(* highlights stored under path whose paragraphId is the argument, each    *)
(* once, none of another path or paragraph, in ascending position;         *)
(* hasParagraphComments(path, paragraphId) is true exactly when that       *)
(* result is not empty.                                                    *)
(***************************************************************************)
ListedParagraphIds ==
    {NoParagraphId, GivenParagraphId} \cup {p \o <<"#", "^">> \o NumToStr(0) : p \in Paths}

C13_ParagraphQuery ==
    \A p \in Paths : \A pid \in ListedParagraphIds :
       LET stored == ObjValues(HighlightsOf(data, p))
           result == getCommentsByParagraphId(p, pid)
       IN /\ Range(result) = {h \in Range(stored) : h.paragraphId = pid}
          /\ Len(result) = Cardinality(Range(result))
          /\ \A i, j \in 1..Len(result) : i < j => result[i].position <= result[j].position
          /\ hasParagraphComments(p, pid) <=> (result # <<>>)

\* two highlights of one paragraph were stored in descending position, next to
\* none of the other document
C13_Witness ==
    LET stored == ObjValues(HighlightsOf(data, PathA))
    IN /\ Len(stored) = 2
       /\ stored[1].paragraphId = GivenParagraphId
       /\ stored[2].paragraphId = GivenParagraphId
       /\ stored[1].position > stored[2].position
       /\ Len(getCommentsByParagraphId(PathA, GivenParagraphId)) = 2

(***************************************************************************)
(* C14: frame.  A call of addComment, updateComment, removeComment,        *)
(* addFileComment, updateFileComment or deleteFileComment on one document  *)
(* leaves the highlight records and the file comments of every other       *)
(* document as they were; cleanupComments(existingFiles) leaves those of   *)
(* every document in existingFiles as they were.                           *)
(***************************************************************************)
PathOps ==
    {"addComment", "updateComment", "removeComment", "addFileComment",
     "updateFileComment", "deleteFileComment"}

C14_Frame ==
    [][CallStep =>
          /\ ret'.op \in PathOps =>
                \A q \in Paths \ {ret'.path} :
                   /\ HighlightsOf(data', q) = HighlightsOf(data, q)
                   /\ getFileOnlyComments(q)' = getFileOnlyComments(q)
          /\ ret'.op = "cleanupComments" =>
                \A q \in ret'.arg :
                   /\ HighlightsOf(data', q) = HighlightsOf(data, q)
                   /\ getFileOnlyComments(q)' = getFileOnlyComments(q)]_vars

\* the last highlight of one document was removed while the other document
\* held a highlight and a file comment under the same ids
C14_Witness ==
    /\ ret.op = "removeComment"
    /\ ret.found
    /\ \E q \in Paths \ {ret.path} :
          /\ HasHighlight(data, q, ret.arg)
          /\ getFileOnlyComments(q) # <<>>

(***************************************************************************)
(* C15: the file comments of a path are in insertion order.                *)
(* addFileComment returns the created record, which is the last element of *)
(* the listing, after the comments that were there; updateFileComment      *)
(* changes only the content and updatedAt of one comment with the given    *)
(* id; deleteFileComment removes only one comment with the given id; the   *)
(* other comments keep their places relative to each other.                *)
(***************************************************************************)
RemoveAt(s, i) == SubSeq(s, 1, i - 1) \o SubSeq(s, i + 1, Len(s))

C15_FileCommentOrder ==
    [][CallStep =>
          LET old == getFileOnlyCommentsIn(fileComments, ret'.path)
              new == getFileOnlyCommentsIn(fileComments', ret'.path)
          IN /\ ret'.op = "addFileComment" => new = Append(old, ret'.arg)
             /\ (ret'.op = "updateFileComment" /\ ret'.found) =>
                   /\ Len(new) = Len(old)
                   /\ \E i \in 1..Len(old) :
                         /\ old[i].id = ret'.arg
                         /\ new[i].content \in Contents
                         /\ new[i].updatedAt = now'
                         /\ new = [old EXCEPT ![i].content = new[i].content,
                                              ![i].updatedAt = new[i].updatedAt]
             /\ (ret'.op = "deleteFileComment" /\ ret'.found) =>
                   \E i \in 1..Len(old) : old[i].id = ret'.arg /\ new = RemoveAt(old, i)]_vars

\* one comment of a thread of MaxThread was deleted, the others have other ids
C15_Witness ==
    /\ ret.op = "deleteFileComment"
    /\ ret.found
    /\ Len(getFileOnlyComments(ret.path)) = MaxThread - 1
    /\ \A i \in 1..Len(getFileOnlyComments(ret.path)) :
          getFileOnlyComments(ret.path)[i].id # ret.arg

(***************************************************************************)
(* C16: the sequence returned by extractHighlights is in ascending order   *)
(* of position, whichever encodings the occurrences use and in whatever    *)
(* order they stand in the text.                                           *)
(***************************************************************************)
C16_ExtractSorted ==
    answer.op = "extractHighlights" =>
       \A i, j \in 1..Len(answer.value) :
          i < j => answer.value[i].position <= answer.value[j].position

\* three occurrences were returned, a span element (the last alternative of
\* the pattern) before occurrences of the other encodings
C16_Witness ==
    /\ answer.op = "extractHighlights"
    /\ Len(answer.value) = 3
    /\ answer.value[1].backgroundColor = SpanColor
    /\ answer.value[2].backgroundColor = Undefined
    /\ answer.value[3].backgroundColor = Undefined

(***************************************************************************)
(* C17: deduplication.  The result of extractHighlights never holds two    *)
(* occurrences less than 10 apart with equal texts; every occurrence is a  *)
(* match of the scan; a match with a text is left out only when an         *)
(* occurrence accepted before it is less than 10 away and has its text.    *)
(***************************************************************************)
C17_Deduplication ==
    answer.op = "extractHighlights" =>
       LET ms == matchAll(answer.content, 0)
           hs == answer.value
       IN /\ \A i, j \in 1..Len(hs) :
                (i # j /\ hs[i].text = hs[j].text) =>
                   Abs(hs[i].position - hs[j].position) >= 10
          /\ \A i \in 1..Len(hs) :
                \E k \in 1..Len(ms) :
                   ms[k].index = hs[i].position /\ resolveText(ms[k]) = hs[i].text
          /\ \A k \in 1..Len(ms) :
                resolveText(ms[k]) # <<>> =>
                   \/ \E i \in 1..Len(hs) : hs[i].position = ms[k].index
                   \/ \E i \in 1..Len(hs) :
                         /\ hs[i].position < ms[k].index
                         /\ ms[k].index - hs[i].position < 10
                         /\ hs[i].text = resolveText(ms[k])

\* a match was dropped as a duplicate, and two occurrences of one text, 10 or
\* more apart, were both kept
C17_Witness ==
    /\ answer.op = "extractHighlights"
    /\ \E k \in 1..Len(matchAll(answer.content, 0)) :
          /\ resolveText(matchAll(answer.content, 0)[k]) # <<>>
          /\ \A i \in 1..Len(answer.value) :
                answer.value[i].position # matchAll(answer.content, 0)[k].index
    /\ \E i, j \in 1..Len(answer.value) :
          i # j /\ answer.value[i].text = answer.value[j].text

(***************************************************************************)
(* C18: every occurrence returned by extractHighlights has a text that is  *)
(* not empty after trimming: a match whose inner text is empty or blank    *)
(* (a mark element holding only spaces) is not in the result.              *)
(***************************************************************************)
C18_NoBlankText ==
    answer.op = "extractHighlights" =>
       \A i \in 1..Len(answer.value) : trim(answer.value[i].text) # <<>>

(***************************************************************************)
(* C19: hasHighlights(text) is true exactly when some match of the pattern *)
(* anywhere in text has a captured text that is not empty after trimming,  *)
(* also when the first match is empty and a later one is not; and it is    *)
(* false whenever extractHighlights(text) is empty.                        *)
(***************************************************************************)
C19_HasHighlights ==
    answer.op = "hasHighlights" =>
       LET ms == matchAll(answer.content, 0)
       IN /\ answer.value <=> \E k \in 1..Len(ms) : trim(resolveText(ms[k])) # <<>>
          /\ (\A r \in SameTick(ReadsPerHighlight * MaxSegments) :
                 extractHighlights(answer.content, r) = <<>>) => ~answer.value

(***************************************************************************)
(* C20: for every occurrence returned by extractHighlights,                *)
(* paragraphOffset is position when no line break precedes position in the *)
(* text, and position - k when k is the index of the last line break       *)
(* before position.                                                        *)
(***************************************************************************)
C20_ParagraphOffset ==
    answer.op = "extractHighlights" =>
       \A i \in 1..Len(answer.value) :
          LET h == answer.value[i]
              breaks == {k \in 0..(h.position - 1) : answer.content[k + 1] = "\n"}
          IN IF breaks = {} THEN h.paragraphOffset = h.position
             ELSE \E k \in breaks :
                     /\ \A j \in breaks : j <= k
                     /\ h.paragraphOffset = h.position - k

\* an occurrence on a later line: a line break precedes it, not at index 0
C20_Witness ==
    /\ answer.op = "extractHighlights"
    /\ \E i \in 1..Len(answer.value) :
          answer.value[i].paragraphOffset # answer.value[i].position

(***************************************************************************)
(* C21: the ids of the occurrences returned by one call of                 *)
(* extractHighlights are pairwise distinct, whatever the clock returns     *)
(* during the call, the same reading for every occurrence included.        *)
(***************************************************************************)
C21_DistinctIds ==
    answer.op = "extractHighlights" =>
       \A i, j \in 1..Len(answer.value) :
          i # j => answer.value[i].id # answer.value[j].id

\* two occurrences whose ids carry the same reading of the clock, and a call
\* during which the clock moved on
C21_Witness ==
    /\ answer.op = "extractHighlights"
    /\ Len(answer.value) = 3
    /\ \E t \in 0..MaxClock :
          /\ answer.value[1].id = HighlightId(t, answer.value[1].position)
          /\ answer.value[2].id = HighlightId(t, answer.value[2].position)
          /\ answer.value[3].id # HighlightId(t, answer.value[3].position)

(***************************************************************************)
(* C22: extractHighlights and hasHighlights keep no state between calls.   *)
(* Whatever was called before, on whatever text, a call returns what a     *)
(* scan of its text from offset 0 gives: the same text, position,          *)
(* paragraphOffset, backgroundColor and originalLength in the same order;  *)
(* and the scan position of the shared pattern stays where it was.         *)
(***************************************************************************)
Described(hs) ==
    [i \in 1..Len(hs) |->
        [text |-> hs[i].text, position |-> hs[i].position,
         paragraphOffset |-> hs[i].paragraphOffset,
         backgroundColor |-> hs[i].backgroundColor,
         originalLength |-> hs[i].originalLength]]

C22_Pure ==
    /\ lastIndex = 0
    /\ answer.op = "extractHighlights" =>
          \A r \in SameTick(ReadsPerHighlight * MaxSegments) :
             Described(answer.value) =
                Described(SortBy(collect(matchAll(answer.content, 0), <<>>,
                                         answer.content, r), "position"))
    /\ answer.op = "hasHighlights" =>
          LET m == exec(answer.content, 0)
          IN answer.value <=> (m.index # -1 /\ trim(resolveText(m)) # <<>>)

\* a text with two occurrences has been scanned to its end
C22_Witness ==
    /\ answer.op = "extractHighlights"
    /\ Len(answer.value) >= 2
    /\ answer.content = buffer

(***************************************************************************)
(* C30: the occurrences returned by extractHighlights are disjoint spans   *)
(* of the text: position + originalLength is at most the length of the     *)
(* text, and at most the position of the next occurrence, so positions     *)
(* increase strictly.                                                      *)
(***************************************************************************)
C30_DisjointSpans ==
    answer.op = "extractHighlights" =>
       LET hs == answer.value
       IN /\ \A i \in 1..Len(hs) :
                hs[i].position + hs[i].originalLength <= Len(answer.content)
          /\ \A i \in 1..(Len(hs) - 1) :
                /\ hs[i].position + hs[i].originalLength <= hs[i + 1].position
                /\ hs[i].position < hs[i + 1].position

\* three occurrences, the second starting where the first ends and the last
\* ending where the text ends
C30_Witness ==
    /\ answer.op = "extractHighlights"
    /\ Len(answer.value) = 3
    /\ answer.value[1].position + answer.value[1].originalLength = answer.value[2].position
    /\ answer.value[3].position + answer.value[3].originalLength = Len(answer.content)

(***************************************************************************)
(* C23: addComment of a virtual highlight stores it under its id exactly   *)
(* as given, with its paragraphId, present or absent, unchanged; no block  *)
(* id is derived and no line of the editor is modified.                    *)
(***************************************************************************)
C23_VirtualAsGiven ==
    [][(CallStep /\ ret'.op = "addComment" /\ ret'.arg.isVirtual) =>
          /\ ObjGet(HighlightsOf(data', ret'.path), ret'.arg.id) = ret'.arg
          /\ lines' = lines]_vars

\* a virtual highlight without paragraphId stored while an editor shows its document
C23_Witness ==
    /\ ret.op = "addComment"
    /\ ret.arg.isVirtual
    /\ ret.arg.paragraphId = NoParagraphId
    /\ activeView = [file |-> ret.path, editor |-> TRUE]
    /\ ObjHas(HighlightsOf(data, ret.path), ret.arg.id)
    /\ ObjGet(HighlightsOf(data, ret.path), ret.arg.id).paragraphId = NoParagraphId

(***************************************************************************)
(* C24: addComment of a non-virtual highlight without paragraphId succeeds *)
(* with or without an editor, and the record stored under the document has *)
(* the paragraphId document path + "#^" + token: the token is the block id *)
(* of the line containing the position when an editor exists, and the      *)
(* reading of the clock when none does; also when the active editor shows  *)
(* another document.                                                       *)
(***************************************************************************)
C24_ParagraphIdOfDocument ==
    [][(CallStep /\ ret'.op = "addComment" /\ ~ret'.arg.isVirtual
          /\ ret'.arg.paragraphId = NoParagraphId) =>
          LET stored == ObjGet(HighlightsOf(data', ret'.path), ret'.arg.id)
              prefix == ret'.path \o <<"#", "^">>
              pid == stored.paragraphId
              token == SubSeq(pid, Len(prefix) + 1, Len(pid))
          IN /\ ret'.status = "ok"
             /\ Len(pid) >= Len(prefix)
             /\ SubSeq(pid, 1, Len(prefix)) = prefix
             /\ IF activeView.editor /\ activeView.file # NoFile
                THEN LET ls == lines[activeView.file]
                         line == offsetToLine(ls, ret'.arg.position)
                     IN \E b \in GeneratedBlockIds : token = getBlockId(ls[line + 1], b).id
                ELSE token = NumToStr(now)]_vars

(***************************************************************************)
(* C27: getBlockId reuses a marker: a line that ends with "^" and an id of *)
(* letters, digits or hyphens keeps its text and yields that id; any other *)
(* line gets " ^" and a new id appended, which is returned.  So deriving   *)
(* the block id of the same line once more returns the same id and leaves  *)
(* the line as it is, for every id the generator can produce.              *)
(***************************************************************************)
C27_BlockIdReuse ==
    [][(CallStep /\ ret'.op = "addComment" /\ needsParagraphId(ret'.arg)
          /\ activeView.editor /\ activeView.file # NoFile) =>
          LET line == offsetToLine(lines[activeView.file], ret'.arg.position)
              before == lines[activeView.file][line + 1]
              after == lines'[activeView.file][line + 1]
              pid == ObjGet(HighlightsOf(data', ret'.path), ret'.arg.id).paragraphId
              token == SubSeq(pid, Len(activeView.file) + 3, Len(pid))
          IN /\ IF BlockIdMatchStart(before) # 0
                THEN after = before
                     /\ token = SubSeq(before, BlockIdMatchStart(before), Len(before))
                ELSE after = before \o <<" ", "^">> \o token
             /\ \A again \in GeneratedBlockIds :
                   getBlockId(after, again) = [id |-> token, line |-> after]]_vars

(***************************************************************************)
(* C25: from an empty store, after any sequence of addComment,             *)
(* removeComment, addFileComment, deleteFileComment, cleanupComments and   *)
(* clearAllComments, no document key of the highlight mapping maps to an   *)
(* empty set of highlights and none of the file-comment mapping maps to an *)
(* empty sequence: removing the last record of a document removes its key. *)
(***************************************************************************)
C25_NoEmptyContainers ==
    /\ \A i \in 1..Len(data) : data[i].v # <<>>
    /\ \A i \in 1..Len(fileComments) : fileComments[i].v # <<>>
    /\ \A i \in 1..Len(fileCommentsData) : fileCommentsData[i].v # <<>>

\* the last highlight of a document has been removed while the other document
\* keeps a highlight and a file comment
C25_Witness ==
    /\ ret.op = "removeComment"
    /\ ret.found
    /\ ~ObjHas(data, ret.path)
    /\ Len(data) = 1
    /\ ~ObjHas(fileComments, ret.path)
    /\ Len(fileComments) = 1

(***************************************************************************)
(* C26: eviction is oldest-inserted-first.  When a call of                 *)
(* loadVisibleComments leaves more than maxCacheSize entries, exactly      *)
(* size - maxCacheSize of them are evicted, those whose paragraph ids were *)
(* inserted earliest; every entry inserted later than an evicted one       *)
(* stays.                                                                  *)
(***************************************************************************)
\* the paragraph ids in the order of their insertion: those cached before the
\* call, then the ids of the call that were not cached, by first occurrence
RECURSIVE insertionOrder(_, _)
insertionOrder(keys, ids) ==
    IF ids = <<>> THEN keys
    ELSE insertionOrder(IF Head(ids) \in Range(keys) THEN keys ELSE Append(keys, Head(ids)),
                        Tail(ids))

C26_OldestInsertedFirst ==
    [][(CallStep /\ ret'.op = "loadVisibleComments" /\ ret'.found) =>
          LET order == insertionOrder(ObjKeys(commentCache), ret'.arg)
              evicted == Len(order) - maxCacheSize
          IN evicted > 0 =>
                ObjKeys(commentCache') = SubSeq(order, evicted + 1, Len(order))]_vars

\* a call after which the cache is full and lacks one of the ids of the call
C26_Witness ==
    /\ ret.op = "loadVisibleComments"
    /\ ret.found
    /\ Len(commentCache) = maxCacheSize
    /\ \E i \in 1..Len(ret.arg) : ~ObjHas(commentCache, ret.arg[i])
    /\ ObjHas(commentCache, ret.arg[Len(ret.arg)])

(***************************************************************************)
(* C29: after loadVisibleComments with at most maxCacheSize distinct ids,  *)
(* every id of the call is in the cache and maps to what                   *)
(* getCommentsByParagraphId returns for it; an id refreshed by the call is *)
(* never among the entries the same call evicts, also when it was cached   *)
(* before the call.                                                        *)
(***************************************************************************)
C29_RefreshedPresent ==
    (ret.op = "loadVisibleComments" /\ ret.found
       /\ Cardinality(Range(ret.arg)) <= maxCacheSize) =>
       \A id \in Range(ret.arg) :
          /\ ObjHas(commentCache, id)
          /\ ObjGet(commentCache, id) = getCommentsByParagraphId(ret.path, id)

(***************************************************************************)
(* C28: every comment appended by updateComment gets a fresh id: within    *)
(* the comments of one highlight the ids are pairwise distinct after any   *)
(* sequence of calls, calls within the same millisecond included.          *)
(***************************************************************************)
C28_FreshCommentIds ==
    \A i \in 1..Len(data) : \A j \in 1..Len(data[i].v) :
       LET comments == data[i].v[j].v.comments
       IN \A m, n \in 1..Len(comments) : m # n => comments[m].id # comments[n].id

(***************************************************************************)
(* C31: handleSendMessage admits at most one chat request in flight.       *)
(* Under any interleaving of send events, a send that arrives while        *)
(* isProcessing is true returns without calling chatService.sendMessage    *)
(* and without changing chatHistory or draggedContents; once the request   *)
(* in flight settles, with a response or with an error, isProcessing is    *)
(* false again, so that a later send is accepted.                          *)
(***************************************************************************)
C31_OneInFlight ==
    [][/\ Len(pending') <= 1
       /\ isProcessing' <=> pending' # <<>>
       /\ (event'.op = "send" /\ isProcessing) =>
             /\ pending' = pending
             /\ chatHistory' = chatHistory
             /\ draggedContents' = draggedContents
       /\ event'.op = "settle" => ~isProcessing'
       /\ (event'.op = "send" /\ ~isProcessing /\ trim(event'.value) # <<>>) =>
             /\ isProcessing'
             /\ pending' = <<[message |-> trim(event'.value), history |-> chatHistory']>>
             /\ event'.accepted]_vars

\* a send with a text has just been turned away while the second request of
\* the conversation is in flight, the first having been answered
C31_Witness ==
    /\ event = [op |-> "send", value |-> <<"q">>, accepted |-> FALSE]
    /\ isProcessing
    /\ Len(pending) = 1
    /\ \E i \in 1..Len(chatHistory) : chatHistory[i].role = "assistant"
    /\ chatHistory[Len(chatHistory)].role = "user"
    /\ draggedContents # <<>>

====
